---- MODULE Spec2Model ----
(***************************************************************************)
(* Model of running/garminconnect_exporter.py: the login with token        *)
(* persistence, the AsyncGarmin client, the fetch loop of fetch_and_write  *)
(* and the rewrite of activities.csv, over repeated runs of main().        *)
(***************************************************************************)
EXTENDS Integers, Sequences, FiniteSets, TLC

\* ---------------------------------------------------------------- bounds
\* Activities 1..MaxId exist upstream.
MaxId == 2
\* Longest list response (the largest --count a run is given).
MaxList == 2
\* Number of runs of main() that are explored.
MaxRuns == 2

VARIABLES
    pc,           \* position of the current run of main()
    runs,         \* runs started so far
    result,       \* how the last run ended
    count,        \* args.count of the current run
    tokenCache,   \* content of token_dir
    cacheLogin,   \* outcome of sync_client.login(token_dir) in this run
    pwLogin,      \* outcome of the username/password login in this run
    cacheWrites,  \* calls of garth.dump(token_dir) in this run
    csv_file,     \* activities.csv: existence and lines
    file0,        \* activities.csv as it was when the run started
    seen,         \* the set seen of main()
    session,      \* ag.req, the httpx.AsyncClient of AsyncGarmin
    expired,      \* garth.client.oauth2_token.expired at import
    refreshed,    \* garth.client.refresh_oauth2() was called
    headers,      \* the token self.headers["Authorization"] was derived from
    requests,     \* GET requests of this run: endpoint, id, Authorization
    acts,         \* the list response
    idx,          \* position of the for loop in acts
    summary,      \* the last detail response
    new_rows,     \* new_rows of fetch_and_write
    old_rows,     \* old_rows of fetch_and_write
    writeOpens,   \* times this run opened activities.csv with mode 'w'
    latest        \* the newest activity recorded upstream (0: none yet)

vars == <<pc, runs, result, count, tokenCache, cacheLogin, pwLogin,
          cacheWrites, csv_file, file0, seen, session, expired, refreshed,
          headers, requests, acts, idx, summary, new_rows, old_rows,
          writeOpens, latest>>

\* ------------------------------------------------------- Python values
PyStr(s) == [t |-> "str", v |-> s]
PyInt(n) == [t |-> "int", v |-> n]
\* a float that round(x, 2) produced, held in hundredths
PyFloat(c) == [t |-> "float", v |-> c]
PyNone == [t |-> "none"]

\* dict.get(key, default)
Get(d, key, default) == IF key \in DOMAIN d THEN d[key] ELSE default

\* truth value of a Python object
Truthy(x) ==
    CASE x.t = "none" -> FALSE
      [] x.t = "str" -> x.v # ""
      [] OTHER -> x.v # 0

\* a or b
PyOr(a, b) == IF Truthy(a) THEN a ELSE b

\* round(n / d, 2) in hundredths; the inputs of the model are never a tie
Round2(n, d) == (200 * n + d) \div (2 * d)

\* str() of a float with at most two decimals, as csv.writer renders it
FloatText(c) ==
    LET whole == c \div 100
        frac == c % 100
    IN  ToString(whole) \o "." \o
        (IF frac % 10 = 0 THEN ToString(frac \div 10)
         ELSE IF frac < 10 THEN "0" \o ToString(frac)
         ELSE ToString(frac))

\* the text csv.writer writes for one cell
CsvText(x) ==
    CASE x.t = "str" -> x.v
      [] x.t = "int" -> ToString(x.v)
      [] x.t = "float" -> FloatText(x.v)
      [] OTHER -> ""

\* writer.writerow(row) followed by csv.reader: the cells as text
CsvRow(row) == [j \in 1..Len(row) |-> CsvText(row[j])]

\* ------------------------------------------------------ record building
header == <<"Activity ID", "Category", "Start Time", "Distance (km)",
            "Steps", "Duration (min)", "Heartrate (BPM)",
            "Elevation Gain (m)">>

TypeKeys == {"running", "walking", "cycling", "trail_running", "Running"}

\* type_key.replace('_', ' ').title()
Category(type_key) ==
    CASE type_key = "running" -> "Running"
      [] type_key = "Running" -> "Running"
      [] type_key = "walking" -> "Walking"
      [] type_key = "cycling" -> "Cycling"
      [] type_key = "trail_running" -> "Trail Running"
      [] OTHER -> "Unknown"

\* act.get("activityType", {}).get("typeKey", "unknown")
TypeKey(act) == Get(Get(act, "activityType", <<>>), "typeKey", "unknown")

\* steps taken from the payload whatever the type key is
StepsUngated(act) == Get(act, "steps", PyStr("N/A"))

\* steps of line 143
Steps(act) ==
    IF TypeKey(act) \in {"running", "walking"}
    THEN Get(act, "steps", PyStr("N/A"))
    ELSE PyStr("N/A")

\* summary.get("summaryDTO", {})
Dto(doc) == Get(doc, "summaryDTO", <<>>)

\* hr of lines 149-150
HeartRate(dto) ==
    LET hr_val == PyOr(Get(dto, "averageHR", PyNone),
                       Get(dto, "averageHeartRate", PyNone))
    IN  IF hr_val # PyNone THEN hr_val ELSE PyStr("N/A")

\* eg of line 151
ElevationGain(dto) ==
    PyOr(PyOr(Get(dto, "totalElevationGain", PyNone),
              Get(dto, "elevationGain", PyNone)),
         PyStr("N/A"))

\* aid of line 135
Aid(act) == ToString(act["activityId"])

\* the row appended at line 154
Row(act, doc) ==
    << PyStr(Aid(act)),
       PyStr(Category(TypeKey(act))),
       PyStr(Get(act, "startTimeLocal", "")),
       PyFloat(Round2(Get(act, "distance", 0), 1000)),
       Steps(act),
       PyFloat(Round2(Get(act, "duration", 0), 60)),
       HeartRate(Dto(doc)),
       ElevationGain(Dto(doc)) >>

\* ------------------------------------------------------------ the store
NoFile == [exists |-> FALSE, lines |-> <<>>]

\* row[name] of a csv.DictReader row
Column(fieldnames, row, name) ==
    row[CHOOSE j \in 1..Len(fieldnames) : fieldnames[j] = name]

\* the known IDs read from the Category column
KnownIdsOfCategory(file) ==
    IF ~file.exists \/ Len(file.lines) = 0 THEN {}
    ELSE { Column(file.lines[1], file.lines[i], "Category") :
             i \in 2..Len(file.lines) }

\* lines 117-122: the Activity ID of every row csv.DictReader yields
KnownIds(file) ==
    IF ~file.exists \/ Len(file.lines) = 0 THEN {}
    ELSE { Column(file.lines[1], file.lines[i], "Activity ID") :
             i \in 2..Len(file.lines) }

\* the read of the old rows without next(reader, None)
ReadOldRowsWithHeader(file) ==
    IF ~file.exists THEN <<>>
    ELSE [i \in 1..Len(file.lines) |->
             [j \in 1..Len(file.lines[i]) |-> PyStr(file.lines[i][j])]]

\* lines 163-170: the rows after the header, as csv.reader yields them
ReadOldRows(file) ==
    IF ~file.exists \/ Len(file.lines) = 0 THEN <<>>
    ELSE [i \in 1..(Len(file.lines) - 1) |->
             [j \in 1..Len(file.lines[i + 1]) |-> PyStr(file.lines[i + 1][j])]]

\* the rewrite without its guard
CommitAlways(rows) == TRUE

\* line 157: the guard of the rewrite
CommitNeeded(rows) == rows # <<>>

\* the rewrite with the new rows after the old ones
FileContentAppended(new, old) ==
    <<header>> \o [i \in 1..Len(old) |-> CsvRow(old[i])]
               \o [i \in 1..Len(new) |-> CsvRow(new[i])]

\* lines 175-177: everything the rewrite writes, line by line
FileContent(new, old) ==
    <<header>> \o [i \in 1..Len(new) |-> CsvRow(new[i])]
               \o [i \in 1..Len(old) |-> CsvRow(old[i])]

\* ---------------------------------------------------------- the upstream
\* startTimeLocal of activity id: a later activity has a larger id
StartOf(id) ==
    "2024-01-" \o (IF id < 10 THEN "0" ELSE "") \o ToString(id) \o " 08:00:00"

\* the activity summary the list endpoint returns for activity id
Upstream(id) ==
    [activityId |-> id,
     activityType |-> [typeKey |-> IF id % 2 = 1 THEN "running" ELSE "cycling"],
     startTimeLocal |-> StartOf(id),
     distance |-> 5000 * id,
     duration |-> 1800 * id,
     steps |-> PyInt(6000 * id)]

\* r.json() of get_activities(0, limit): at most limit summaries, in any
\* order and with any repetition
ListResponses(limit) ==
    UNION { [1..n -> {Upstream(id) : id \in 1..MaxId}] : n \in 0..limit }

\* r.json() of get_activity_summary(aid): the detail document of activity id;
\* activities with an even id have no summaryDTO
UpstreamDetail(id) ==
    IF id % 2 = 1
    THEN [summaryDTO |-> [averageHR |-> PyInt(150 + id),
                          totalElevationGain |-> PyInt(42)]]
    ELSE <<>>

\* ---------------------------------------------------------------- login
\* what sync_client.login(token_dir) can do, by the content of token_dir
CacheLoginOutcomes(cache) ==
    IF cache = "absent" THEN {"not_found"}
    ELSE {"ok", "invalid_credentials", "connection", "rate_limited"}

\* an except clause that also catches the connection error
FallsBackOnConnection(outcome) ==
    outcome \in {"not_found", "invalid_credentials", "connection"}

\* line 100: except (FileNotFoundError, GarminConnectAuthenticationError)
FallsBack(outcome) == outcome \in {"not_found", "invalid_credentials"}

\* a cache-based login that saves the token again when it succeeds
CacheLoginNextDumps(outcome) ==
    IF outcome = "ok" THEN "dump"
    ELSE IF FallsBack(outcome) THEN "pw_login"
    ELSE "ended"

\* a cache-based login whose other errors are swallowed
CacheLoginNextIgnoresError(outcome) ==
    IF FallsBack(outcome) THEN "pw_login" ELSE "load_seen"

\* lines 98-100: where main() goes after the cache-based login
CacheLoginNext(outcome) ==
    IF outcome = "ok" THEN "load_seen"
    ELSE IF FallsBack(outcome) THEN "pw_login"
    ELSE "ended"

\* the except clause of line 104 without its return
PwLoginNextNoReturn(outcome) ==
    IF outcome \in {"ok", "connection", "rate_limited"} THEN "dump"
    ELSE "ended"

\* lines 101-107: where main() goes after the username/password login
PwLoginNext(outcome) ==
    IF outcome = "ok" THEN "dump" ELSE "ended"

\* an import that never refreshes
NeverRefresh(exp) == FALSE

\* line 52: whether the imported token is refreshed
NeedsRefresh(exp) == exp

\* lines 55-56: str(garth.client.oauth2_token) of a token that was expired
\* at import (exp) and refreshed or not (ref)
Authorization(exp, ref) == IF exp /\ ~ref THEN "expired" ELSE "valid"

\* ----------------------------------------------------------------- Init
Init ==
    /\ pc = "ended"
    /\ runs = 0
    /\ result = "none"
    /\ count = 0
    /\ tokenCache = "absent"
    /\ cacheLogin = "none"
    /\ pwLogin = "none"
    /\ cacheWrites = 0
    /\ csv_file = NoFile
    /\ file0 = NoFile
    /\ seen = {}
    /\ session = "none"
    /\ expired = FALSE
    /\ refreshed = FALSE
    /\ headers = "none"
    /\ requests = <<>>
    /\ acts = <<>>
    /\ idx = 0
    /\ summary = <<>>
    /\ new_rows = <<>>
    /\ old_rows = <<>>
    /\ writeOpens = 0
    /\ latest = MaxId

\* -------------------------------------------------------------- actions
\* lines 81-96: a new run of main() starts
StartRun ==
    /\ pc = "ended"
    /\ runs < MaxRuns
    /\ \E c \in 1..MaxList : count' = c
    /\ pc' = "cache_login"
    /\ runs' = runs + 1
    /\ result' = "running"
    /\ cacheLogin' = "none"
    /\ pwLogin' = "none"
    /\ cacheWrites' = 0
    /\ file0' = csv_file
    /\ seen' = {}
    /\ session' = "none"
    /\ expired' = FALSE
    /\ refreshed' = FALSE
    /\ headers' = "none"
    /\ requests' = <<>>
    /\ acts' = <<>>
    /\ idx' = 0
    /\ summary' = <<>>
    /\ new_rows' = <<>>
    /\ old_rows' = <<>>
    /\ writeOpens' = 0
    /\ UNCHANGED <<latest, tokenCache, csv_file>>

\* lines 97-100: sync_client.login(token_dir)
CacheLogin ==
    /\ pc = "cache_login"
    /\ \E outcome \in CacheLoginOutcomes(tokenCache) :
         /\ cacheLogin' = outcome
         /\ pc' = CacheLoginNext(outcome)
         /\ result' = IF CacheLoginNext(outcome) = "ended"
                      THEN "cache_login_error" ELSE result
    /\ UNCHANGED <<latest, runs, count, tokenCache, pwLogin, cacheWrites, csv_file,
                   file0, seen, session, expired, refreshed, headers, requests, acts,
                   idx, summary, new_rows, old_rows, writeOpens>>

\* lines 101-106: Garmin(email, password).login(); connection and
\* rate-limit errors print and return, an authentication error is not caught
PwLogin ==
    /\ pc = "pw_login"
    /\ \E outcome \in {"ok", "connection", "rate_limited",
                       "invalid_credentials"} :
         /\ pwLogin' = outcome
         /\ pc' = PwLoginNext(outcome)
         /\ result' = IF PwLoginNext(outcome) # "ended" THEN result
                      ELSE IF outcome \in {"connection", "rate_limited"}
                      THEN "login_failed"
                      ELSE "pw_login_error"
    /\ UNCHANGED <<latest, runs, count, tokenCache, cacheLogin, cacheWrites,
                   csv_file, file0, seen, session, expired, refreshed, headers,
                   requests, acts, idx, summary, new_rows, old_rows,
                   writeOpens>>

\* line 107: sync_client.garth.dump(token_dir)
DumpToken ==
    /\ pc = "dump"
    /\ tokenCache' = "present"
    /\ cacheWrites' = cacheWrites + 1
    /\ pc' = "load_seen"
    /\ UNCHANGED <<latest, runs, result, count, cacheLogin, pwLogin, csv_file, file0,
                   seen, session, expired, refreshed, headers, requests, acts, idx,
                   summary, new_rows, old_rows, writeOpens>>

\* lines 116-122: load the existing activity IDs
LoadSeen ==
    /\ pc = "load_seen"
    /\ seen' = KnownIds(csv_file)
    /\ pc' = "create_client"
    /\ UNCHANGED <<latest, runs, result, count, tokenCache, cacheLogin, pwLogin,
                   cacheWrites, csv_file, file0, session, expired, refreshed, headers,
                   requests, acts, idx, summary, new_rows, old_rows,
                   writeOpens>>

\* lines 125-127 and 34-59: AsyncGarmin(secret, auth_domain); the client is
\* created first, then the token is loaded and refreshed if it is expired
CreateClient ==
    /\ pc = "create_client"
    /\ session' = "open"
    /\ \E exp \in BOOLEAN, refreshOk \in BOOLEAN :
         /\ expired' = exp
         /\ refreshed' = NeedsRefresh(exp)
         /\ IF NeedsRefresh(exp) /\ ~refreshOk
            THEN pc' = "ended" /\ result' = "refresh_error"
                 /\ headers' = headers
            ELSE pc' = "list" /\ result' = result
                 /\ headers' = Authorization(exp, NeedsRefresh(exp))
    /\ UNCHANGED <<latest, runs, count, tokenCache, cacheLogin, pwLogin, cacheWrites,
                   csv_file, file0, seen, requests, acts, idx, summary,
                   new_rows, old_rows, writeOpens>>

\* line 131, success: acts = await ag.get_activities(0, args.count)
ListOk ==
    /\ pc = "list"
    /\ requests' = Append(requests, <<"list", "", headers>>)
    /\ \E resp \in ListResponses(count) : acts' = resp
    /\ idx' = 1
    /\ new_rows' = <<>>
    /\ pc' = "loop"
    /\ UNCHANGED <<latest, runs, result, count, tokenCache, cacheLogin, pwLogin,
                   cacheWrites, csv_file, file0, seen, session, expired,
                   refreshed, headers, summary, old_rows, writeOpens>>

\* lines 66-67: the list request fails, raise_for_status() raises and the
\* exception leaves fetch_and_write and main
ListFail ==
    /\ pc = "list"
    /\ requests' = Append(requests, <<"list", "", headers>>)
    /\ pc' = "ended"
    /\ result' = "list_error"
    /\ UNCHANGED <<latest, runs, count, tokenCache, cacheLogin, pwLogin, cacheWrites,
                   csv_file, file0, seen, session, expired, refreshed, headers, acts,
                   idx, summary, new_rows, old_rows, writeOpens>>

\* lines 134-137: the activity is in seen, continue
LoopSkip ==
    /\ pc = "loop"
    /\ idx <= Len(acts)
    /\ Aid(acts[idx]) \in seen
    /\ idx' = idx + 1
    /\ UNCHANGED <<latest, pc, runs, result, count, tokenCache, cacheLogin, pwLogin,
                   cacheWrites, csv_file, file0, seen, session, expired,
                   refreshed, headers, requests, acts, summary, new_rows, old_rows,
                   writeOpens>>

\* lines 134-147: the activity is not in seen, its detail is requested
RequestDetail ==
    /\ pc = "loop"
    /\ idx <= Len(acts)
    /\ Aid(acts[idx]) \notin seen
    /\ requests' = Append(requests, <<"detail", Aid(acts[idx]), headers>>)
    /\ pc' = "detail"
    /\ UNCHANGED <<latest, runs, result, count, tokenCache, cacheLogin, pwLogin,
                   cacheWrites, csv_file, file0, seen, session, expired,
                   refreshed, headers, acts, idx, summary, new_rows, old_rows,
                   writeOpens>>

\* a detail step that rewrites the file as soon as its row is built
DetailOkWrites ==
    /\ pc = "detail"
    /\ summary' = UpstreamDetail(acts[idx]["activityId"])
    /\ new_rows' = Append(new_rows,
                          Row(acts[idx], UpstreamDetail(acts[idx]["activityId"])))
    /\ csv_file' = [exists |-> TRUE,
                    lines |-> FileContent(
                        <<Row(acts[idx], UpstreamDetail(acts[idx]["activityId"]))>>,
                        ReadOldRows(csv_file))]
    /\ writeOpens' = writeOpens + 1
    /\ idx' = idx + 1
    /\ pc' = "loop"
    /\ UNCHANGED <<latest, runs, result, count, tokenCache, cacheLogin,
                   pwLogin, cacheWrites, file0, seen, session, expired,
                   refreshed, headers, requests, acts, old_rows>>

\* lines 147-154: the detail arrives and the row is appended to new_rows
DetailOk ==
    /\ pc = "detail"
    /\ summary' = UpstreamDetail(acts[idx]["activityId"])
    /\ new_rows' = Append(new_rows,
                          Row(acts[idx], UpstreamDetail(acts[idx]["activityId"])))
    /\ idx' = idx + 1
    /\ pc' = "loop"
    /\ UNCHANGED <<latest, runs, result, count, tokenCache, cacheLogin, pwLogin,
                   cacheWrites, csv_file, file0, seen, session, expired,
                   refreshed, headers, requests, acts, old_rows, writeOpens>>

\* a detail failure that is caught: the loop goes on with the next activity
DetailFailSkips ==
    /\ pc = "detail"
    /\ idx' = idx + 1
    /\ pc' = "loop"
    /\ result' = "detail_error"
    /\ UNCHANGED <<latest, runs, count, tokenCache, cacheLogin, pwLogin,
                   cacheWrites, csv_file, file0, seen, session, expired,
                   refreshed, headers, requests, acts, summary, new_rows,
                   old_rows, writeOpens>>

\* a detail failure that writes the rows built so far before it raises
DetailFailCommits ==
    /\ pc = "detail"
    /\ csv_file' = IF CommitNeeded(new_rows)
                   THEN [exists |-> TRUE,
                         lines |-> FileContent(new_rows,
                                               ReadOldRows(csv_file))]
                   ELSE csv_file
    /\ pc' = "ended"
    /\ result' = "detail_error"
    /\ UNCHANGED <<latest, runs, count, tokenCache, cacheLogin, pwLogin, cacheWrites,
                   file0, seen, session, expired, refreshed, headers, requests, acts,
                   idx, summary, new_rows, old_rows, writeOpens>>

\* lines 73-74: the detail request fails, raise_for_status() raises and the
\* exception leaves fetch_and_write and main
DetailFail ==
    /\ pc = "detail"
    /\ pc' = "ended"
    /\ result' = "detail_error"
    /\ UNCHANGED <<latest, runs, count, tokenCache, cacheLogin, pwLogin, cacheWrites,
                   csv_file, file0, seen, session, expired, refreshed, headers,
                   requests, acts, idx, summary, new_rows, old_rows,
                   writeOpens>>

\* lines 156-170: the loop is over; with new rows the old rows are read,
\* without them the rewrite is skipped
LoopDone ==
    /\ pc = "loop"
    /\ idx > Len(acts)
    /\ IF CommitNeeded(new_rows)
       THEN old_rows' = ReadOldRows(csv_file) /\ pc' = "open_write"
       ELSE old_rows' = old_rows /\ pc' = "close"
    /\ UNCHANGED <<latest, runs, result, count, tokenCache, cacheLogin, pwLogin,
                   cacheWrites, csv_file, file0, seen, session, expired,
                   refreshed, headers, requests, acts, idx, summary, new_rows,
                   writeOpens>>

\* line 173: open(csv_file, 'w') creates or truncates the file
OpenWrite ==
    /\ pc = "open_write"
    /\ csv_file' = [exists |-> TRUE, lines |-> <<>>]
    /\ writeOpens' = writeOpens + 1
    /\ pc' = "writing"
    /\ UNCHANGED <<latest, runs, result, count, tokenCache, cacheLogin, pwLogin,
                   cacheWrites, file0, seen, session, expired, refreshed, headers,
                   requests, acts, idx, summary, new_rows, old_rows>>

\* lines 174-177: header, new rows and old rows are written, the file closes
WriteRows ==
    /\ pc = "writing"
    /\ csv_file' = [exists |-> TRUE, lines |-> FileContent(new_rows, old_rows)]
    /\ pc' = "close"
    /\ UNCHANGED <<latest, runs, result, count, tokenCache, cacheLogin, pwLogin,
                   cacheWrites, file0, seen, session, expired, refreshed, headers,
                   requests, acts, idx, summary, new_rows, old_rows,
                   writeOpens>>

\* lines 174-177: a write fails (OSError) after the truncation; the lines
\* written so far stay in the file and the exception leaves main
WriteFail ==
    /\ pc = "writing"
    /\ \E k \in 0..(Len(FileContent(new_rows, old_rows)) - 1) :
         csv_file' = [exists |-> TRUE,
                      lines |-> SubSeq(FileContent(new_rows, old_rows), 1, k)]
    /\ pc' = "ended"
    /\ result' = "store_error"
    /\ UNCHANGED <<latest, runs, count, tokenCache, cacheLogin, pwLogin, cacheWrites,
                   file0, seen, session, expired, refreshed, headers, requests, acts,
                   idx, summary, new_rows, old_rows, writeOpens>>

\* lines 179-182: await ag.close(), then main() prints and returns
CloseSession ==
    /\ pc = "close"
    /\ session' = "closed"
    /\ pc' = "ended"
    /\ result' = "finished"
    /\ UNCHANGED <<latest, runs, count, tokenCache, cacheLogin, pwLogin, cacheWrites,
                   csv_file, file0, seen, expired, refreshed, headers, requests, acts,
                   idx, summary, new_rows, old_rows, writeOpens>>

Next ==
    \/ StartRun
    \/ CacheLogin
    \/ PwLogin
    \/ DumpToken
    \/ LoadSeen
    \/ CreateClient
    \/ ListOk
    \/ ListFail
    \/ LoopSkip
    \/ RequestDetail
    \/ DetailOk
    \/ DetailFail
    \/ LoopDone
    \/ OpenWrite
    \/ WriteRows
    \/ WriteFail
    \/ CloseSession

Spec == Init /\ [][Next]_vars

\* ------------------------------------- the upstream in chronological order
\* the list endpoint when activities 1..newest exist: the limit most recent
\* activities, newest first
TopActivities(newest, limit) ==
    [i \in 1..(IF limit < newest THEN limit ELSE newest) |->
        Upstream(newest - i + 1)]

InitChrono ==
    /\ pc = "ended"
    /\ runs = 0
    /\ result = "none"
    /\ count = 0
    /\ tokenCache = "absent"
    /\ cacheLogin = "none"
    /\ pwLogin = "none"
    /\ cacheWrites = 0
    /\ csv_file = NoFile
    /\ file0 = NoFile
    /\ seen = {}
    /\ session = "none"
    /\ expired = FALSE
    /\ refreshed = FALSE
    /\ headers = "none"
    /\ requests = <<>>
    /\ acts = <<>>
    /\ idx = 0
    /\ summary = <<>>
    /\ new_rows = <<>>
    /\ old_rows = <<>>
    /\ writeOpens = 0
    /\ latest = 0

\* an activity is recorded upstream; what a run lists is fixed by its single
\* list request, so recording between runs covers recording at any time
NewActivity ==
    /\ pc = "ended"
    /\ latest < MaxId
    /\ latest' = latest + 1
    /\ UNCHANGED <<pc, runs, result, count, tokenCache, cacheLogin, pwLogin,
                   cacheWrites, csv_file, file0, seen, session, expired,
                   refreshed, headers, requests, acts, idx, summary, new_rows,
                   old_rows, writeOpens>>

\* line 131, success, with the upstream listing newest first
ListOkChrono ==
    /\ pc = "list"
    /\ requests' = Append(requests, <<"list", "", headers>>)
    /\ acts' = TopActivities(latest, count)
    /\ idx' = 1
    /\ new_rows' = <<>>
    /\ pc' = "loop"
    /\ UNCHANGED <<latest, runs, result, count, tokenCache, cacheLogin,
                   pwLogin, cacheWrites, csv_file, file0, seen, session,
                   expired, refreshed, headers, summary, old_rows, writeOpens>>

\* runs whose rewrite does not fail, against the chronological upstream
NextChrono ==
    \/ NewActivity
    \/ StartRun
    \/ CacheLogin
    \/ PwLogin
    \/ DumpToken
    \/ LoadSeen
    \/ CreateClient
    \/ ListOkChrono
    \/ ListFail
    \/ LoopSkip
    \/ RequestDetail
    \/ DetailOk
    \/ DetailFail
    \/ LoopDone
    \/ OpenWrite
    \/ WriteRows
    \/ CloseSession

SpecChrono == InitChrono /\ [][NextChrono]_vars

\* ------------------------------------------- the record building alone
\* activityType of a summary: absent, without typeKey, or with one
NormTypes ==
    {<<>>} \cup {[activityType |-> <<>>]}
           \cup {[activityType |-> [typeKey |-> k]] : k \in TypeKeys}

\* steps of a summary: absent, null, 0 or positive
NormSteps ==
    {<<>>, [steps |-> PyNone], [steps |-> PyInt(0)], [steps |-> PyInt(6000)]}

\* distance (m) and duration (s) of a summary: absent or present
NormMeasures ==
    {<<>>, [distance |-> 5000, duration |-> 1800],
     [distance |-> 5254, duration |-> 100]}

\* the activity summaries the record building is applied to
NormSummaries ==
    { [activityId |-> 123, startTimeLocal |-> "2024-01-01 08:00:00"]
        @@ ty @@ st @@ me : ty \in NormTypes, st \in NormSteps,
                            me \in NormMeasures }

DtoKeys == {"averageHR", "averageHeartRate", "totalElevationGain",
            "elevationGain"}

\* the values one key of summaryDTO takes: null, 0 or a positive number
DtoValues(key) ==
    {PyNone, PyInt(0),
     PyInt(CASE key = "averageHR" -> 150
             [] key = "averageHeartRate" -> 140
             [] key = "totalElevationGain" -> 42
             [] OTHER -> 40)}

\* every summaryDTO: each key absent, null, 0 or positive
NormDtos ==
    UNION { { d \in [K -> UNION {DtoValues(k) : k \in DtoKeys}] :
                \A k \in K : d[k] \in DtoValues(k) } : K \in SUBSET DtoKeys }

\* the detail documents the record building is applied to
NormDetails == {<<>>} \cup {[summaryDTO |-> d] : d \in NormDtos}

InitNorm ==
    /\ pc = "normalize"
    /\ runs = 0
    /\ result = "none"
    /\ count = 1
    /\ tokenCache = "absent"
    /\ cacheLogin = "none"
    /\ pwLogin = "none"
    /\ cacheWrites = 0
    /\ csv_file = NoFile
    /\ file0 = NoFile
    /\ seen = {}
    /\ session = "none"
    /\ expired = FALSE
    /\ refreshed = FALSE
    /\ headers = "none"
    /\ requests = <<>>
    /\ \E act \in NormSummaries : acts = <<act>>
    /\ idx = 1
    /\ summary \in NormDetails
    /\ new_rows = <<>>
    /\ old_rows = <<>>
    /\ writeOpens = 0
    /\ latest = MaxId

\* lines 139-154 applied to one summary and one detail document
Normalize ==
    /\ pc = "normalize"
    /\ new_rows' = <<Row(acts[idx], summary)>>
    /\ pc' = "normalized"
    /\ UNCHANGED <<latest, runs, result, count, tokenCache, cacheLogin, pwLogin,
                   cacheWrites, csv_file, file0, seen, session, expired,
                   refreshed, headers, requests, acts, idx, summary, old_rows,
                   writeOpens>>

NextNorm == Normalize

SpecNorm == InitNorm /\ [][NextNorm]_vars

\* ------------------------------------------------------------ properties
\* the lines of a file after its first line
DataLines(file) == IF Len(file.lines) = 0 THEN <<>> ELSE Tail(file.lines)

\* the Activity ID cells of a sequence of rows of Python values
RowIds(rows) == [i \in 1..Len(rows) |-> rows[i][1].v]

\* the run got its list response
Listed ==
    \/ pc \in {"loop", "detail", "open_write", "writing", "close"}
    \/ pc = "ended" /\ result \in {"finished", "detail_error", "store_error"}

\* every listed activity is already in the store the run started with
AllKnown == \A i \in 1..Len(acts) : Aid(acts[i]) \in KnownIds(file0)

\* the rewrite of this run completed
Committed ==
    /\ writeOpens > 0
    /\ pc = "close" \/ (pc = "ended" /\ result = "finished")

\* the run ended by an error or by the early return of line 106
RunFailed == pc = "ended" /\ result \notin {"none", "finished"}

\* key is in the dict and its value is not null
Present(d, key) == key \in DOMAIN d /\ d[key] # PyNone

\* C1: the persisted store never contains two rows with the same Activity ID,
\* whatever the list responses were.
C1_UniqueActivityIds ==
    \A i, j \in 2..Len(csv_file.lines) :
        i # j => Column(csv_file.lines[1], csv_file.lines[i], "Activity ID")
                 # Column(csv_file.lines[1], csv_file.lines[j], "Activity ID")

\* C2: a run whose list response holds only activities already in the store,
\* or none, leaves the file as it was: never opened for writing, not created.
C2_NoNewActivitiesNoWrite ==
    (Listed /\ AllKnown) => (csv_file = file0 /\ writeOpens = 0)

C2_Witness ==
    /\ pc = "ended" /\ result = "finished"
    /\ Len(acts) > 0 /\ AllKnown
    /\ file0.exists /\ csv_file = file0

C4_KnownIdsRoundTrip ==
    Committed =>
        KnownIds(csv_file)
          = KnownIds(file0) \cup {new_rows[i][1].v : i \in 1..Len(new_rows)}

C4_Witness ==
    /\ Committed
    /\ KnownIds(file0) # {}
    /\ KnownIds(csv_file) # KnownIds(file0)

\* C5: a run whose list call or detail call failed leaves the file identical
\* to the file before the run; no record built before the failure is written.
C5_UpstreamFailureWritesNothing ==
    result \in {"list_error", "detail_error"} =>
        (csv_file = file0 /\ writeOpens = 0)

C5_Witness ==
    /\ pc = "ended" /\ result = "detail_error"
    /\ Len(new_rows) > 0
    /\ file0.exists /\ csv_file = file0

\* C6: after a run that failed at any point, a write failure during the
\* rewrite included, every line the file had before the run is still in it.
C6_FailedRunKeepsRows ==
    RunFailed =>
        \A i \in 1..Len(file0.lines) :
            \E j \in 1..Len(csv_file.lines) :
                csv_file.lines[j] = file0.lines[i]

\* C7: when a run that created the network session has ended, normally or by
\* a list, detail or file error, the session is closed.
C7_SessionClosedAtEnd ==
    (pc = "ended" /\ session # "none") => session = "closed"

\* C8: the cache-based login comes first; the username/password login is
\* attempted exactly when the cache-based login failed with not-found or
\* invalid credentials; once it succeeded the token is dumped to the cache
\* before the run reads the store or creates the client.
C8_LoginOrder ==
    /\ (pc \notin {"cache_login", "ended"} => cacheLogin # "none")
    /\ (pwLogin # "none"
          => cacheLogin \in {"not_found", "invalid_credentials"})
    /\ (cacheLogin \in {"not_found", "invalid_credentials"}
          => (pc = "pw_login" \/ pwLogin # "none"))
    /\ (pwLogin = "ok" /\ pc # "dump"
          => (cacheWrites = 1 /\ tokenCache = "present"))

C8_Witness ==
    /\ cacheLogin = "invalid_credentials"
    /\ pwLogin = "ok"
    /\ pc = "list"
    /\ cacheWrites = 1

\* C9: when the username/password login failed with a connection or a
\* rate-limit error the run is over: no request was issued, the token cache
\* was not written and the file is as it was.
C9_FallbackFailureAborts ==
    pwLogin \in {"connection", "rate_limited"} =>
        /\ pc = "ended"
        /\ requests = <<>>
        /\ session = "none"
        /\ cacheWrites = 0
        /\ csv_file = file0

C9_Witness ==
    /\ pwLogin = "rate_limited"
    /\ pc = "ended" /\ result = "login_failed"
    /\ file0.exists

\* C10: the heart-rate column is averageHR when that key is present and not
\* null (0 included), else averageHeartRate when present, else "N/A".
C10_HeartRateResolution ==
    pc = "normalized" =>
        LET dto == Dto(summary)
            hr == new_rows[1][7]
        IN  IF Present(dto, "averageHR") THEN hr = dto["averageHR"]
            ELSE IF Present(dto, "averageHeartRate")
                 THEN hr = dto["averageHeartRate"]
            ELSE hr = PyStr("N/A")

C17_ElevationGainResolution ==
    pc = "normalized" =>
        LET dto == Dto(summary)
            eg == new_rows[1][8]
        IN  IF Present(dto, "totalElevationGain")
            THEN eg = dto["totalElevationGain"]
            ELSE IF Present(dto, "elevationGain")
                 THEN eg = dto["elevationGain"]
            ELSE eg = PyStr("N/A")

\* the day of a Start Time cell: timestamps order as their text does
DayOf(text) == CHOOSE id \in 1..MaxId : StartOf(id) = text

\* C12: with the upstream listing newest first and any --count per run, the
\* rows of the store are in strictly newest-first order of Start Time.
C12_NewestFirst ==
    \A i \in 2..(Len(csv_file.lines) - 1) :
        DayOf(Column(csv_file.lines[1], csv_file.lines[i], "Start Time"))
          > DayOf(Column(csv_file.lines[1], csv_file.lines[i + 1],
                         "Start Time"))

\* the detail requests of this run, in order
DetailRequests == SelectSeq(requests, LAMBDA r : r[1] = "detail")

\* the first cell of every line after the first
StoredIds(file) == {file.lines[i][1] : i \in 2..Len(file.lines)}

\* C13: after any sequence of runs the file, if it exists, has the header
\* exactly once, as its first line, and never as a data row.
C13_HeaderOnce ==
    (pc = "ended" /\ csv_file.exists) =>
        /\ Len(csv_file.lines) >= 1
        /\ csv_file.lines[1] = header
        /\ \A i \in 2..Len(csv_file.lines) : csv_file.lines[i] # header

\* C14: when a detail call fails the run is over at that point: the failed
\* request is the last request, its activity got no record, and no detail
\* was requested for an activity listed after it.
C14_DetailFailureHalts ==
    result = "detail_error" =>
        /\ pc = "ended"
        /\ requests[Len(requests)] = <<"detail", Aid(acts[idx]), headers>>
        /\ Len(new_rows) = Len(DetailRequests) - 1
        /\ Len(DetailRequests)
             = Cardinality({i \in 1..idx : Aid(acts[i]) \notin seen})

C14_Witness ==
    /\ pc = "ended" /\ result = "detail_error"
    /\ idx < Len(acts)
    /\ Aid(acts[idx + 1]) \notin seen
    /\ Aid(acts[idx + 1]) # Aid(acts[idx])
    /\ Len(DetailRequests) = 1

\* C15: a detail is requested, and a record built, only for activities whose
\* ID is not in the store the run started with.
C15_OnlyUnseenFetched ==
    /\ \A k \in 1..Len(requests) :
         requests[k][1] = "detail" => requests[k][2] \notin StoredIds(file0)
    /\ \A k \in 1..Len(new_rows) : new_rows[k][1].v \notin StoredIds(file0)

C15_Witness ==
    /\ pc = "ended" /\ result = "finished"
    /\ Len(acts) = 2
    /\ Aid(acts[1]) \in StoredIds(file0)
    /\ Aid(acts[2]) \notin StoredIds(file0)
    /\ Len(DetailRequests) = 1
    /\ Len(new_rows) = 1

\* C16: the token cache is written once in a run whose username/password
\* login succeeded and never in any other run; nothing after the dump of
\* line 107 writes it.
C16_CacheWrittenOncePerPwLogin ==
    cacheWrites = (IF pwLogin = "ok" /\ pc # "dump" THEN 1 ELSE 0)

C16_Witness ==
    /\ pc = "ended" /\ result = "finished"
    /\ pwLogin = "ok"
    /\ cacheWrites = 1
    /\ Len(requests) >= 2

\* C18: a token that was expired at import is refreshed before the
\* Authorization header is derived, and every request carries a header that
\* was derived from a token that is not expired.
C18_RefreshedBeforeUse ==
    /\ (expired /\ headers # "none") => (refreshed /\ headers = "valid")
    /\ (expired /\ requests # <<>>) => refreshed
    /\ \A k \in 1..Len(requests) : requests[k][3] = "valid"

C18_Witness ==
    /\ expired /\ refreshed
    /\ Len(requests) >= 2
    /\ requests[2][1] = "detail"

\* C19: a run opens the file for writing at most once, and only when the
\* list call and every detail call have succeeded; while a detail is pending
\* or still to be requested the file is as it was.
C19_SingleWriteAfterFetch ==
    /\ writeOpens <= 1
    /\ csv_file # file0 => writeOpens = 1
    /\ (writeOpens = 1 \/ pc \in {"open_write", "writing"}) =>
          /\ Len(requests) >= 1 /\ requests[1][1] = "list"
          /\ idx > Len(acts)
          /\ Len(new_rows) = Len(DetailRequests)
          /\ result \notin {"list_error", "detail_error"}

C19_Witness ==
    /\ pc = "close"
    /\ writeOpens = 1
    /\ Len(DetailRequests) = 2

\* C20: when the cache-based login failed with a connection or a rate-limit
\* error the run is over: no username/password login, no cache write, no
\* request, the store neither read nor changed.
C20_CacheLoginErrorEndsRun ==
    cacheLogin \in {"connection", "rate_limited"} =>
        /\ pc = "ended" /\ result = "cache_login_error"
        /\ pwLogin = "none"
        /\ cacheWrites = 0
        /\ requests = <<>>
        /\ session = "none"
        /\ seen = {}
        /\ csv_file = file0

C20_Witness ==
    /\ cacheLogin = "rate_limited"
    /\ pc = "ended"
    /\ KnownIds(file0) # {}

====
